---- MODULE Spec2Model ----
(***************************************************************************)
(* llama-nexus: the Responses conversation store (src/database.rs), the    *)
(* chain walk get_conversation_history, the Metadata annotation map        *)
(* (src/types/metadata.rs), and the translation between the Responses and  *)
(* the chat-completion schemas (src/responses.rs).                         *)
(*                                                                         *)
(* The store is the SQLite table `responses` behind a sqlx SqlitePool.     *)
(* sqlx opens every SQLite connection with PRAGMA foreign_keys = ON, so    *)
(* the FOREIGN KEY clause of the table is enforced: an INSERT of a row     *)
(* whose previous_response_id names no row fails, and so does a DELETE of  *)
(* a row that another row names.                                           *)
(***************************************************************************)
EXTENDS Integers, Sequences, FiniteSets, TLC

\* ------------------------------------------------------------------ bounds
\* Number of distinct response ids the callers use.
NumIds == 3
\* Cap on the number of lookups of one chain walk (the loop itself has none).
MaxWalk == 5

Ids == 1..NumIds
\* Option::None / SQL NULL for previous_response_id.
None == 0
Statuses == {"in_progress", "completed"}

VARIABLES
    responses,   \* the `responses` table: id -> row
    last,        \* outcome of the latest store statement
    hist,        \* the running get_conversation_history call
    input_items, \* the `input_items` table: item id -> row
    output_items,\* the `output_items` table: item id -> row
    metadata,    \* a Metadata value: key -> value, both strings
    mres,        \* outcome of the latest Metadata operation
    json,        \* the storage form written by to_json
    loaded,      \* what from_json returned for it
    jmap,        \* the map of the request the caller is serving
    jpc,         \* where the caller that persists and reloads a Metadata is
    fetched,     \* what get_response made of the row's metadata column
    call,        \* the running schema translation: the function and its arguments
    ret          \* what that translation returned

itemVars == <<input_items, output_items>>
storeVars == <<responses, last, hist, itemVars>>
metaVars == <<metadata, mres>>
jsonVars == <<json, loaded, jmap, jpc, fetched>>
chatVars == <<call, ret>>
dataVars == <<metaVars, jsonVars, chatVars>>
vars == <<responses, last, hist, input_items, output_items,
          metadata, mres, json, loaded, jmap, jpc, fetched, call, ret>>

\* ----------------------------------------------------------- Metadata
\* The three bounds of Metadata::insert and Metadata::validate.
MaxKeys == 16
MaxKeyLen == 64
MaxValueLen == 512
\* Number of well-formed keys the callers use beyond the MaxKeys-th.
NumSpareKeys == 1

\* A String is the sequence of its characters.  A character is the
\* one-character string where the language has a literal for it (the printable
\* ASCII characters but the grave accent, and tab, line feed, form feed and
\* carriage return); any other character is named "U+" followed by its code
\* point in four to six hexadecimal digits: "U+0008" is the backspace, "U+00e9"
\* the e with acute accent.

\* The printable ASCII characters, from the space (0x20) to the tilde (0x7E).
Printable ==
    <<
       " ", "!", "\"", "#", "$", "%", "&", "'", "(", ")", "*", "+",
       ",", "-", ".", "/", "0", "1", "2", "3", "4", "5", "6", "7",
       "8", "9", ":", ";", "<", "=", ">", "?", "@", "A", "B", "C",
       "D", "E", "F", "G", "H", "I", "J", "K", "L", "M", "N", "O",
       "P", "Q", "R", "S", "T", "U", "V", "W", "X", "Y", "Z", "[",
       "\\", "]", "^", "_", "U+0060", "a", "b", "c", "d", "e", "f", "g",
       "h", "i", "j", "k", "l", "m", "n", "o", "p", "q", "r", "s",
       "t", "u", "v", "w", "x", "y", "z", "{", "|", "}", "~" >>

\* The hexadecimal digits: the sixteen serde_json writes, then the upper-case
\* letters it also reads.
HexDigits ==
    <<"0", "1", "2", "3", "4", "5", "6", "7", "8", "9", "a", "b", "c", "d", "e", "f",
      "A", "B", "C", "D", "E", "F">>

\* n in at least `width` hexadecimal digits.
RECURSIVE HexText(_, _)
HexText(n, width) ==
    IF n < 16 /\ width <= 1 THEN HexDigits[n + 1]
    ELSE HexText(n \div 16, width - 1) \o HexDigits[(n % 16) + 1]

\* The character of code point n (char::from_u32).
Char(n) ==
    IF n = 9 THEN "\t"
    ELSE IF n = 10 THEN "\n"
    ELSE IF n = 12 THEN "\f"
    ELSE IF n = 13 THEN "\r"
    ELSE IF n \in 32..126 THEN Printable[n - 31]
    ELSE "U+" \o HexText(n, 4)

\* The characters UTF-8 writes in one byte.
Ascii == {Char(n) : n \in 0..127}

\* char::len_utf8: one byte for ASCII, two up to U+07FF, three up to U+FFFF and
\* four beyond.
Utf8Len(c) ==
    IF c \in Ascii THEN 1
    ELSE IF \E n \in 128..2047 : Char(n) = c THEN 2
    ELSE IF \E n \in 2048..65535 : Char(n) = c THEN 3
    ELSE 4

\* String::len, which the bounds are tested with: the number of UTF-8 bytes,
\* one per character of an ASCII string and up to three more for another.
StrLen(s) ==
    IF s \in Seq(Ascii) THEN Len(s)
    ELSE Len(s) + Cardinality({i \in DOMAIN s : Utf8Len(s[i]) >= 2})
                + Cardinality({i \in DOMAIN s : Utf8Len(s[i]) >= 3})
                + Cardinality({i \in DOMAIN s : Utf8Len(s[i]) >= 4})

Str(c, n) == [i \in 1..n |-> c]
Key(n) == Str("k", n)
Val(n) == Str("v", n)

\* Result<(), MetadataError>: Ok(()), or the error kind with the length it
\* carries (0 for TooManyKeys).
Ok == [kind |-> "Ok", len |-> 0]
TooManyKeys == [kind |-> "TooManyKeys", len |-> 0]
KeyTooLong(n) == [kind |-> "KeyTooLong", len |-> n]
ValueTooLong(n) == [kind |-> "ValueTooLong", len |-> n]

\* Metadata::new: the empty map.
new == <<>>

\* HashMap::insert and HashMap::remove on the inner map.
MapInsert(m, key, value) ==
    [k \in DOMAIN m \cup {key} |-> IF k = key THEN value ELSE m[k]]
MapRemove(m, key) == [k \in DOMAIN m \ {key} |-> m[k]]

\* The body of validate's loop for one entry: the key is tested before the value.
EntryErrors(key, value) ==
    IF StrLen(key) > MaxKeyLen THEN {KeyTooLong(StrLen(key))}
    ELSE IF StrLen(value) > MaxValueLen THEN {ValueTooLong(StrLen(value))}
    ELSE {}

\* Metadata::validate: the results it can return.  The count is tested first;
\* the loop then returns the error of the first offending entry it meets, and a
\* HashMap iterates in an arbitrary order, so that is any offending entry.
validate(m) ==
    IF Cardinality(DOMAIN m) > MaxKeys THEN {TooManyKeys}
    ELSE LET errors == UNION {EntryErrors(k, m[k]) : k \in DOMAIN m} IN
           IF errors = {} THEN {Ok} ELSE errors

\* Metadata::from_map: Ok(Metadata(map)) when validate passes; on an error no
\* Metadata is made and the one at hand stays as it is.
from_map(map) ==
    /\ \E result \in validate(map) :
         /\ mres' = [op |-> "from_map", kind |-> result.kind, len |-> result.len,
                     count |-> Cardinality(DOMAIN map)]
         /\ metadata' = IF result = Ok THEN map ELSE metadata
    /\ UNCHANGED <<storeVars, chatVars>>

\* Faulty variant: the entry count tested with > where the code has >=.
insert_result_off_by_one(m, key, value) ==
    IF Cardinality(DOMAIN m) > MaxKeys /\ key \notin DOMAIN m THEN TooManyKeys
    ELSE IF StrLen(key) > MaxKeyLen THEN KeyTooLong(StrLen(key))
    ELSE IF StrLen(value) > MaxValueLen THEN ValueTooLong(StrLen(value))
    ELSE Ok

\* Faulty variant: the entry count tested without the contains_key exemption.
insert_result_no_overwrite(m, key, value) ==
    IF Cardinality(DOMAIN m) >= MaxKeys THEN TooManyKeys
    ELSE IF StrLen(key) > MaxKeyLen THEN KeyTooLong(StrLen(key))
    ELSE IF StrLen(value) > MaxValueLen THEN ValueTooLong(StrLen(value))
    ELSE Ok

\* Metadata::insert, its three tests in the order of the code.
insert_result(m, key, value) ==
    IF Cardinality(DOMAIN m) >= MaxKeys /\ key \notin DOMAIN m THEN TooManyKeys
    ELSE IF StrLen(key) > MaxKeyLen THEN KeyTooLong(StrLen(key))
    ELSE IF StrLen(value) > MaxValueLen THEN ValueTooLong(StrLen(value))
    ELSE Ok

\* Faulty variant: the map written before the tests, so a refused insert leaves its entry.
insert_written_first(m, key, value, result) == MapInsert(m, key, value)

\* The map Metadata::insert leaves: written only after every test has passed.
insert_map(m, key, value, result) ==
    IF result = Ok THEN MapInsert(m, key, value) ELSE m

insert(key, value) ==
    /\ LET result == insert_result(metadata, key, value) IN
         /\ mres' = [op |-> "insert", kind |-> result.kind, len |-> result.len,
                     count |-> Cardinality(DOMAIN metadata)]
         /\ metadata' = insert_map(metadata, key, value, result)
    /\ UNCHANGED <<storeVars, chatVars>>

\* Metadata::remove: Some(value) or None; nothing is tested.
remove(key) ==
    /\ mres' = [op |-> "remove", kind |-> IF key \in DOMAIN metadata THEN "Some" ELSE "None",
                len |-> 0, count |-> Cardinality(DOMAIN metadata)]
    /\ metadata' = MapRemove(metadata, key)
    /\ UNCHANGED <<storeVars, chatVars>>

\* The maps the callers hand to from_map: the first n well-formed keys, alone or
\* with entries at and beyond the bounds.
Prefix(n) == [k \in {Key(i) : i \in 1..n} |-> Val(1)]
PrefixSizes == {0} \cup ((MaxKeys - 1)..(MaxKeys + NumSpareKeys))
ExtraEntries ==
    {<<Key(MaxKeyLen), Val(MaxValueLen)>>,
     <<Key(MaxKeyLen + 1), Val(1)>>,
     <<Key(MaxKeyLen - 1), Val(MaxValueLen + 1)>>}
MapOf(entries) ==
    [k \in {e[1] : e \in entries} |-> (CHOOSE e \in entries : e[1] = k)[2]]
MapInputs == {Prefix(n) @@ MapOf(E) : n \in PrefixSizes, E \in SUBSET ExtraEntries}

\* The keys and values the callers hand to insert and remove.
KeyInputs ==
    {Key(n) : n \in {1, MaxKeyLen, MaxKeyLen + 1} \cup (MaxKeys..(MaxKeys + NumSpareKeys))}
ValueInputs == {Val(1), Val(MaxValueLen), Val(MaxValueLen + 1)}

\* ------------------------------------------- Metadata: the storage form
\* The characters serde_json writes escaped and refuses raw inside a string: the
\* quote, the backslash and every control character (those below the space).
Escaped == {"\"", "\\"} \cup {Char(n) : n \in 0..31}

\* serde_json's string escape: the quote and the backslash get a backslash; the
\* backspace, tab, line feed, form feed and carriage return become backslash b,
\* t, n, f and r; any other control character becomes backslash u and its code
\* point in four lower-case hexadecimal digits.  Everything else is written as
\* it is.
EscapeChar(c) ==
    IF c = "\"" THEN <<"\\", "\"">>
    ELSE IF c = "\\" THEN <<"\\", "\\">>
    ELSE IF c = Char(8) THEN <<"\\", "b">>
    ELSE IF c = "\t" THEN <<"\\", "t">>
    ELSE IF c = "\n" THEN <<"\\", "n">>
    ELSE IF c = "\f" THEN <<"\\", "f">>
    ELSE IF c = "\r" THEN <<"\\", "r">>
    ELSE IF c \in Escaped
      THEN LET n == CHOOSE n \in 0..31 : Char(n) = c IN
             <<"\\", "u", "0", "0", HexDigits[(n \div 16) + 1], HexDigits[(n % 16) + 1]>>
    ELSE <<c>>

\* The first position of s at or after i whose character is in `chars`, or
\* Len(s) + 1: the loop that skips a run of plain characters.
FirstOf(s, i, chars) ==
    LET found == {q \in i..Len(s) : s[q] \in chars} IN
      IF found = {} THEN Len(s) + 1
      ELSE CHOOSE q \in found : \A r \in found : q <= r

\* The escaped characters of s[i..Len(s)]: serde_json copies each run of plain
\* characters as it is and writes the escape of the character that ends it.
RECURSIVE EscapeFrom(_, _)
EscapeFrom(s, i) ==
    LET q == FirstOf(s, i, Escaped) IN
      IF q > Len(s) THEN SubSeq(s, i, Len(s))
      ELSE SubSeq(s, i, q - 1) \o EscapeChar(s[q]) \o EscapeFrom(s, q + 1)

\* A JSON string: the escaped characters between quotes.
JsonString(s) == <<"\"">> \o EscapeFrom(s, 1) \o <<"\"">>

\* The members of m for the keys order[i..], comma separated.
RECURSIVE JsonMembers(_, _, _)
JsonMembers(m, order, i) ==
    IF i > Len(order) THEN <<>>
    ELSE (IF i > 1 THEN <<",">> ELSE <<>>)
           \o JsonString(order[i]) \o <<":">> \o JsonString(m[order[i]])
           \o JsonMembers(m, order, i + 1)

\* Metadata::to_json: serde_json::to_string of the inner HashMap, its entries
\* written in the map's iteration order.
to_json(m, order) == <<"{">> \o JsonMembers(m, order, 1) \o <<"}">>

\* Result of a parse: Ok(value) with the position after it, or Err.
ParseErr == [ok |-> FALSE, value |-> <<>>, next |-> 0]
ParseOk(value, next) == [ok |-> TRUE, value |-> value, next |-> next]

\* The value of a hexadecimal digit, upper or lower case, or -1.
HexValue(c) ==
    IF \E v \in 0..15 : c \in {HexDigits[v + 1], HexDigits[IF v < 10 THEN v + 1 ELSE v + 7]}
    THEN CHOOSE v \in 0..15 : c \in {HexDigits[v + 1], HexDigits[IF v < 10 THEN v + 1 ELSE v + 7]}
    ELSE -1

\* serde_json's decode_hex_escape: the number the four hexadecimal digits
\* t[p..p+3] write, or -1 when the input ends first or one is no digit.
decode_hex_escape(t, p) ==
    IF p + 3 > Len(t) \/ \E i \in p..(p + 3) : HexValue(t[i]) < 0 THEN -1
    ELSE 4096 * HexValue(t[p]) + 256 * HexValue(t[p + 1])
           + 16 * HexValue(t[p + 2]) + HexValue(t[p + 3])

\* The rest of a surrogate pair, the leading surrogate n1 read up to position
\* p: backslash u and a trailing surrogate n2 must follow, and the pair is one
\* character beyond U+FFFF.
surrogate_pair(t, p, n1, n2) ==
    IF p + 1 > Len(t) \/ t[p] # "\\" \/ t[p + 1] # "u" THEN ParseErr
    ELSE IF n2 \notin 56320..57343 THEN ParseErr
    ELSE ParseOk(Char(65536 + 1024 * (n1 - 55296) + (n2 - 56320)), p + 6)

\* The character the hexadecimal escape of number n1, read up to position p,
\* stands for: that code point's, unless n1 is a surrogate; a trailing
\* surrogate on its own is an error.
unicode_escape(t, p, n1) ==
    IF n1 < 0 THEN ParseErr
    ELSE IF n1 \in 56320..57343 THEN ParseErr
    ELSE IF n1 \in 55296..56319
      THEN surrogate_pair(t, p, n1, decode_hex_escape(t, p + 2))
    ELSE ParseOk(Char(n1), p)

\* serde_json's parse_unicode_escape, p the position after backslash u.
parse_unicode_escape(t, p) == unicode_escape(t, p + 4, decode_hex_escape(t, p))

\* serde_json's parse_escape, p the position after the backslash: the character
\* the escape stands for and the position after it; the input ending or an
\* unknown escape is an error.
parse_escape(t, p) ==
    IF p > Len(t) THEN ParseErr
    ELSE IF t[p] \in {"\"", "\\", "/"} THEN ParseOk(t[p], p + 1)
    ELSE IF t[p] = "b" THEN ParseOk(Char(8), p + 1)
    ELSE IF t[p] = "f" THEN ParseOk("\f", p + 1)
    ELSE IF t[p] = "n" THEN ParseOk("\n", p + 1)
    ELSE IF t[p] = "r" THEN ParseOk("\r", p + 1)
    ELSE IF t[p] = "t" THEN ParseOk("\t", p + 1)
    ELSE IF t[p] = "u" THEN parse_unicode_escape(t, p + 1)
    ELSE ParseErr

\* serde_json reading the characters of a string after its opening quote: each
\* run of plain characters is copied, up to the closing quote, an escape read as
\* the character it stands for; the input ending, a wrong escape or a raw
\* control character is an error.
RECURSIVE ScanString(_, _, _)

\* The scan resumed after the escape c, if that was read.
ScanAfterEscape(t, run, c) ==
    IF c.ok THEN ScanString(t, c.next, Append(run, c.value)) ELSE ParseErr

\* The scan at q, the first position at or after p that holds no plain character.
ScanAt(t, p, acc, q) ==
    IF q > Len(t) THEN ParseErr
    ELSE IF t[q] = "\"" THEN ParseOk(acc \o SubSeq(t, p, q - 1), q + 1)
    ELSE IF t[q] # "\\" THEN ParseErr
    ELSE ScanAfterEscape(t, acc \o SubSeq(t, p, q - 1), parse_escape(t, q + 1))

ScanString(t, p, acc) == ScanAt(t, p, acc, FirstOf(t, p, Escaped))

\* JSON whitespace, which serde_json skips before and after every token.
Whitespace == {" ", "\n", "\t", "\r"}

\* The first position of t at or after p that holds no whitespace, or Len(t) + 1.
SkipWhitespace(t, p) ==
    LET found == {q \in p..Len(t) : t[q] \notin Whitespace} IN
      IF found = {} THEN Len(t) + 1
      ELSE CHOOSE q \in found : \A r \in found : q <= r

\* A string token at position p (whitespace skipped by the caller).
ParseString(t, p) ==
    IF p <= Len(t) /\ t[p] = "\"" THEN ScanString(t, p + 1, <<>>) ELSE ParseErr

\* The members of an object from position p: key, colon, value, then a comma and
\* the next member, or the closing brace, whitespace allowed around each.  A
\* repeated key keeps the later value.
RECURSIVE ParseMembers(_, _, _)
ParseMembers(t, p, acc) ==
    LET key == ParseString(t, SkipWhitespace(t, p))
        colon == SkipWhitespace(t, key.next) IN
      IF ~key.ok \/ colon > Len(t) \/ t[colon] # ":" THEN ParseErr
      ELSE LET value == ParseString(t, SkipWhitespace(t, colon + 1))
               map == MapInsert(acc, key.value, value.value)
               after == SkipWhitespace(t, value.next) IN
             IF ~value.ok \/ after > Len(t) THEN ParseErr
             ELSE IF t[after] = "," THEN ParseMembers(t, after + 1, map)
             ELSE IF t[after] = "}" THEN ParseOk(map, after + 1)
             ELSE ParseErr

\* HashMap<String, String>::deserialize on the text: one object, whitespace
\* allowed before it; next is the position after its closing brace.
ParseObject(t) ==
    LET open == SkipWhitespace(t, 1)
        first == SkipWhitespace(t, open + 1) IN
      IF open > Len(t) \/ t[open] # "{" \/ first > Len(t) THEN ParseErr
      ELSE IF t[first] = "}" THEN ParseOk(<<>>, first + 1)
      ELSE ParseMembers(t, first, <<>>)

\* Deserializer::end, which serde_json::from_str calls once the value is
\* built: only whitespace is left from position p.
end(t, p) == SkipWhitespace(t, p) = Len(t) + 1

\* Metadata::from_json: serde_json::from_str into a HashMap, Ok(Metadata(data))
\* with the parsed map as it is, or the parse error.  Result is a sequence of at
\* most one Metadata.
from_json(t) ==
    LET data == ParseObject(t) IN
      IF data.ok /\ end(t, data.next) THEN <<data.value>> ELSE <<>>

\* ------------------------------------- a caller that persists and reloads
\* Longest key or value of the small maps, and the largest map the caller
\* persists: to_json is run in every iteration order of its keys.
MaxWordLen == 2
MaxPermuted == 2

\* The characters that matter to the storage form: the quote, the backslash, a
\* control character with a short escape of each kind (line feed, which is also
\* whitespace, and backspace), one written with its code point, the comma, and a
\* plain letter that is also an escape's name.
JsonChars == {"n", "\"", "\\", "\n", ",", Char(8), Char(1)}
Words == UNION {[1..n -> JsonChars] : n \in 0..MaxWordLen}
\* Maps of one entry, and of two entries with one-character keys.
SmallMaps ==
    {MapOf({<<k, v>>}) : k \in Words, v \in Words}
      \cup {MapOf({<<(<<cd[1]>>), v>>, <<(<<cd[2]>>), <<cd[1]>> >>}) :
              cd \in {x \in JsonChars \X JsonChars : x[1] # x[2]},
              v \in {<<>>, <<"\"">>, <<"\\">>}}
\* The maps the caller is given: the small maps, the maps of the Metadata
\* operations that are as small, and two with a key of two-byte characters, of
\* MaxKeyLen bytes and of two bytes more (half as many characters).
JsonMapInputs ==
    SmallMaps
      \cup {map \in MapInputs : Cardinality(DOMAIN map) <= MaxPermuted}
      \cup {MapOf({<<Str(Char(233), n), Val(1)>>}) :
               n \in {MaxKeyLen \div 2, MaxKeyLen \div 2 + 1}}

\* One order of the elements of S.
RECURSIVE SomeOrder(_)
SomeOrder(S) ==
    IF S = {} THEN <<>>
    ELSE LET first == CHOOSE e \in S : TRUE IN <<first>> \o SomeOrder(S \ {first})

\* o is an order in which a HashMap with the keys S may iterate: any order of
\* the keys, each met once (as many places as keys, and every key in one).
IsIterationOrder(o, S) ==
    /\ DOMAIN o = 1..Cardinality(S)
    /\ {o[i] : i \in DOMAIN o} = S

\* Those orders.
IterationOrders(S) == {o \in [1..Cardinality(S) -> S] : IsIterationOrder(o, S)}

\* The order o from its last key to its first.
Backwards(o) == [i \in DOMAIN o |-> o[Len(o) + 1 - i]]

\* The order o started k places later, wrapping around.
Rotated(o, k) == [i \in DOMAIN o |-> o[((i + k - 1) % Len(o)) + 1]]

\* The orders in which the program that writes a metadata column out of band
\* lists the entries S: any order of at most MaxPermuted entries (the one order
\* of none included); of more entries one order, its reverse and all their
\* rotations, so that every key is written in every position.
WrittenOrders(S) ==
    IF Cardinality(S) <= MaxPermuted THEN IterationOrders(S)
    ELSE {Rotated(o, k) : o \in {SomeOrder(S), Backwards(SomeOrder(S))},
                          k \in 0..(Cardinality(S) - 1)}

InitMeta ==
    /\ metadata = new
    /\ mres = [op |-> "new", kind |-> "Ok", len |-> 0, count |-> 0]

InitJson ==
    /\ json = <<>>
    /\ loaded = <<>>
    /\ jmap = <<>>
    /\ jpc = "start"
    /\ fetched = <<>>

\* The caller builds the Metadata of a request with from_map.
JsonFromMap ==
    /\ jpc = "start"
    /\ \E map \in JsonMapInputs : from_map(map) /\ jmap' = map
    /\ jpc' = IF mres'.kind = "Ok" THEN "made" ELSE "refused"
    /\ UNCHANGED <<json, loaded, fetched>>

\* It writes the storage form, the map iterating in `order`.
JsonToJson(order) ==
    /\ jpc = "made"
    /\ IsIterationOrder(order, DOMAIN metadata)
    /\ json' = to_json(metadata, order)
    /\ jpc' = "written"
    /\ UNCHANGED <<storeVars, chatVars, metaVars, loaded, jmap, fetched>>

\* It reads the storage form back.
JsonFromJson ==
    /\ jpc = "written"
    /\ loaded' = from_json(json)
    /\ jpc' = "read"
    /\ UNCHANGED <<storeVars, chatVars, metaVars, json, jmap, fetched>>

\* It is done with the request, served or refused, and drops what it holds.
JsonNext ==
    /\ jpc \in {"read", "refused", "fetched"}
    /\ fetched' = <<>>
    /\ metadata' = new
    /\ mres' = [op |-> "new", kind |-> "Ok", len |-> 0, count |-> 0]
    /\ json' = <<>>
    /\ loaded' = <<>>
    /\ jmap' = <<>>
    /\ jpc' = "start"
    /\ UNCHANGED <<storeVars, chatVars>>

\* serde_json::from_str::<Metadata>: impl Deserialize for Metadata parses the
\* map and hands it to from_map, whose error (any offending entry's) is the
\* result; only then does from_str look at what follows the object.
deserialize(t) ==
    LET parsed == ParseObject(t) IN
    IF ~parsed.ok THEN {[kind |-> "Err", error |-> "syntax"]}
    ELSE {IF result # Ok THEN [kind |-> "Err", error |-> result]
          ELSE IF end(t, parsed.next) THEN [kind |-> "Ok", metadata |-> <<parsed.value>>]
          ELSE [kind |-> "Err", error |-> "syntax"] : result \in validate(parsed.value)}

\* get_response, the metadata column of the row found: NULL is None, a text is
\* parsed with serde_json::from_str into Metadata, and an error there is the
\* error of get_response.
get_response_metadata(column) ==
    IF column = <<>> THEN {[kind |-> "Ok", metadata |-> <<>>]}
    ELSE deserialize(column[1])

\* A row's metadata column is written by another program, validated or not:
\* `text` is written for the map `map`, serde_json's own text in any order of
\* the entries, with or without whitespace around the object, or another.
WrittenOutOfBand(map, text) ==
    /\ jpc = "start"
    /\ jmap' = map
    /\ json' = text
    /\ jpc' = "written"
    /\ UNCHANGED <<storeVars, chatVars, metaVars, loaded, fetched>>

\* Texts in the escapes serde_json reads and does not write, each with the map
\* it stands for: the solidus with a backslash, a letter and a character beyond
\* ASCII by their code points in either case of digits, and a character beyond
\* U+FFFF by its surrogate pair.
EscapedForms ==
    {[map |-> MapOf({<<(<<"/">>), <<Char(233), "a">> >>}),
      text |-> <<"{", "\"", "\\", "/", "\"", ":", "\"",
                 "\\", "u", "0", "0", "E", "9", "\\", "u", "0", "0", "6", "1", "\"", "}">>],
     [map |-> MapOf({<<(<<Char(233)>>), <<Char(128512)>> >>}),
      text |-> <<"{", "\"", "\\", "u", "0", "0", "e", "9", "\"", ":", "\"",
                 "\\", "u", "d", "8", "3", "d", "\\", "u", "D", "E", "0", "0", "\"", "}">>]}

\* get_response reads that row.
GetResponseMetadata ==
    /\ jpc = "read"
    /\ fetched' \in get_response_metadata(<<json>>)
    /\ jpc' = "fetched"
    /\ UNCHANGED <<storeVars, chatVars, metaVars, json, loaded, jmap>>

\* ------------------------------------------------------------ the table
\* The Metadata the callers attach to a Response: none, one within the bounds,
\* and one with a key over MaxKeyLen, which Metadata::from_json hands out
\* without testing it.
MetadataInputs ==
    {<<>>, <<MapOf({<<Key(1), Val(1)>>})>>, <<MapOf({<<Key(MaxKeyLen + 1), Val(1)>>})>>}

\* ResponseSession, reduced to the fields the chain, the status update and the
\* row's parse read or write.  metadata is Option<Metadata>.
ResponseSession ==
    [id : Ids, status : Statuses, previous_response_id : Ids \cup {None},
     metadata : MetadataInputs]

\* Faulty variant: the pool opened with SQLite's own default, enforcement off.
foreign_keys_off == FALSE

\* SqlitePool::connect: sqlx turns foreign key enforcement on for the pool.
foreign_keys == TRUE

\* Faulty variant: INSERT OR REPLACE, the primary key never refuses a row.
PrimaryKeyUnchecked(table, r) == FALSE

\* id TEXT PRIMARY KEY: a second row with the same id is refused.
PrimaryKeyViolation(table, r) == r.id \in DOMAIN table

\* The table with row r written (the INSERT's effect once it is accepted).
Inserted(table, r) == [i \in DOMAIN table \cup {r.id} |-> IF i = r.id THEN r ELSE table[i]]

\* The table without the row of id.
Deleted(table, id) == [i \in DOMAIN table \ {id} |-> table[i]]

\* FOREIGN KEY (previous_response_id) REFERENCES responses(id), the child side:
\* the row the INSERT adds names a parent that is no row once it is added.  Only
\* the statement's own row counts, whatever the other rows name.
ForeignKeyViolation(table, r) ==
    /\ foreign_keys
    /\ r.previous_response_id # None
    /\ r.previous_response_id \notin DOMAIN table \cup {r.id}

\* The same key, the parent side: the DELETE of id would leave another row
\* naming id.  A row that names itself goes with the statement.
ForeignKeyReferenced(table, id) ==
    /\ foreign_keys
    /\ \E i \in DOMAIN table \ {id} : table[i].previous_response_id = id

\* The metadata column store_response binds: NULL (<<>>) for None, else
\* serde_json::to_string of the Metadata, the entries in the map's order.
metadata_json(m, order) == IF m = <<>> THEN <<>> ELSE <<to_json(m[1], order)>>

\* The keys of the Metadata of r, if any.
MetadataKeys(r) == IF r.metadata = <<>> THEN {} ELSE DOMAIN r.metadata[1]

\* The row the INSERT binds for response r.
Row(r, order) == [r EXCEPT !.metadata = metadata_json(r.metadata, order)]

\* DatabaseManager::store_response: one INSERT.  The outcome is Ok, or the
\* sqlx error of the constraint that refused the row.
store_response_result(table, r) ==
    IF PrimaryKeyViolation(table, r) THEN "Conflict"
    ELSE IF ForeignKeyViolation(table, r) THEN "InvalidReference"
    ELSE "Ok"

store_response(r, order) ==
    /\ IsIterationOrder(order, MetadataKeys(r))
    /\ last' = store_response_result(responses, r)
    /\ responses' = IF last' = "Ok" THEN Inserted(responses, Row(r, order)) ELSE responses
    /\ UNCHANGED <<hist, itemVars, dataVars>>

\* ------------------------------------------------------ the item tables
\* Item ids the callers use, per table, and the times they stamp them with.
ItemIds == {"item_1"}
Stamps == {1, 2}

\* InputItem / OutputItem, reduced to the key, the owning response and created_at.
Item == [id : ItemIds, response_id : Ids, created_at : Stamps]

\* FOREIGN KEY (response_id) REFERENCES responses(id): the item's owner is no row.
ItemForeignKeyViolation(table, item) == foreign_keys /\ item.response_id \notin DOMAIN table

\* store_input_item / store_output_item: one INSERT into the item table.
store_item_result(items, table, item) ==
    IF item.id \in DOMAIN items THEN "Conflict"
    ELSE IF ItemForeignKeyViolation(table, item) THEN "InvalidReference"
    ELSE "Ok"

store_input_item(item) ==
    /\ last' = store_item_result(input_items, responses, item)
    /\ input_items' = IF last' = "Ok" THEN Inserted(input_items, item) ELSE input_items
    /\ UNCHANGED <<responses, hist, output_items, dataVars>>

store_output_item(item) ==
    /\ last' = store_item_result(output_items, responses, item)
    /\ output_items' = IF last' = "Ok" THEN Inserted(output_items, item) ELSE output_items
    /\ UNCHANGED <<responses, hist, input_items, dataVars>>

\* get_input_items / get_output_items: SELECT ... WHERE response_id = ?1 ORDER
\* BY created_at ASC.  The Vecs the query can return: the rows of the response,
\* each once, in ascending created_at; SQL leaves the order of rows with equal
\* created_at open.
get_items(items, response_id) ==
    LET rows == {items[i] : i \in {j \in DOMAIN items : items[j].response_id = response_id}} IN
      {v \in [1..Cardinality(rows) -> rows] :
         \A i, j \in DOMAIN v :
           i < j => v[i] # v[j] /\ v[i].created_at <= v[j].created_at}

\* ON DELETE CASCADE: the items owned by the deleted response go with it.
CascadeDeleted(items, id) ==
    [i \in {j \in DOMAIN items : items[j].response_id # id} |-> items[i]]

\* DatabaseManager::delete_response: DELETE ... WHERE id = ?1; Ok(rows_affected > 0),
\* or the error of the foreign key that still references the row.
delete_response_result(table, id) ==
    IF id \notin DOMAIN table THEN "false"
    ELSE IF ForeignKeyReferenced(table, id) THEN "ForeignKeyError"
    ELSE "true"

delete_response(id) ==
    /\ last' = delete_response_result(responses, id)
    /\ responses' = IF last' = "true" THEN Deleted(responses, id) ELSE responses
    /\ input_items' = IF last' = "true" THEN CascadeDeleted(input_items, id) ELSE input_items
    /\ output_items' = IF last' = "true" THEN CascadeDeleted(output_items, id) ELSE output_items
    /\ UNCHANGED <<hist, dataVars>>

\* Faulty variant: the UPDATE also clears the parent link.
StatusUpdatedReparenting(table, id, status) ==
    [i \in DOMAIN table |->
        IF i = id THEN [table[i] EXCEPT !.status = status, !.previous_response_id = None]
        ELSE table[i]]

\* DatabaseManager::update_response_status: UPDATE responses SET status WHERE id.
StatusUpdated(table, id, status) ==
    [i \in DOMAIN table |-> IF i = id THEN [table[i] EXCEPT !.status = status] ELSE table[i]]

update_response_status(id, status) ==
    /\ responses' = StatusUpdated(responses, id, status)
    /\ last' = "Ok"
    /\ UNCHANGED <<hist, itemVars, dataVars>>

\* Result<Option<ResponseSession>>: Ok(None) is GetOk(<<>>), Ok(Some(r)) is
\* GetOk(<<r>>), Err(e) is GetErr(e).
GetOk(response) == [kind |-> "Ok", response |-> response]
GetErr(error) == [kind |-> "Err", error |-> error]

\* DatabaseManager::get_response, the results it can return: Ok(None) when no row
\* has the id; else the row with its metadata column parsed, or the error of that
\* parse, which `?` makes the error of get_response.
get_response(table, id) ==
    IF id \notin DOMAIN table THEN {GetOk(<<>>)}
    ELSE {IF parsed.kind = "Ok"
          THEN GetOk(<<[table[id] EXCEPT !.metadata = parsed.metadata]>>)
          ELSE GetErr(parsed.error) : parsed \in get_response_metadata(table[id].metadata)}

\* ------------------------------------------------------- the chain walk
\* Faulty variant: the reverse left out, newest first.
ReverseOmitted(s) == s

\* Vec::reverse.
Reverse(s) == [i \in 1..Len(s) |-> s[Len(s) + 1 - i]]

HistIdle == [pc |-> "idle", target |-> None, current_id |-> None,
             responses |-> <<>>, lookups |-> 0, error |-> <<>>]

\* get_conversation_history(response_id): entry, responses = Vec::new(),
\* current_id = Some(response_id).
history_call(id) ==
    /\ hist.pc = "idle"
    /\ hist' = [pc |-> "loop", target |-> id, current_id |-> id,
                responses |-> <<>>, lookups |-> 0, error |-> <<>>]
    /\ UNCHANGED <<responses, last, itemVars, dataVars>>

\* One turn of `while let Some(id) = current_id`: one get_response.  Its error
\* is returned at once by `?` and the Vec dropped; a row is pushed and its parent
\* is the next id; no row breaks the loop.
history_lookup ==
    /\ hist.pc = "loop"
    /\ hist.current_id # None
    /\ hist.lookups < MaxWalk
    /\ \E result \in get_response(responses, hist.current_id) :
         IF result.kind = "Err"
         THEN hist' = [hist EXCEPT !.pc = "failed", !.responses = <<>>,
                                   !.error = <<result.error>>, !.lookups = @ + 1]
         ELSE IF result.response # <<>>
         THEN hist' = [hist EXCEPT !.current_id = result.response[1].previous_response_id,
                                   !.responses = Append(@, result.response[1]),
                                   !.lookups = @ + 1]
         ELSE hist' = [hist EXCEPT !.pc = "break", !.lookups = @ + 1]
    /\ UNCHANGED <<responses, last, itemVars, dataVars>>

\* Faulty variant: a walk ended by a miss returns nothing of what it visited.
history_return_miss_clears ==
    /\ \/ hist.pc = "break"
       \/ hist.pc = "loop" /\ hist.current_id = None
    /\ hist' = [hist EXCEPT !.pc = "done",
                            !.responses = IF hist.pc = "break" THEN <<>> ELSE Reverse(@)]
    /\ UNCHANGED <<responses, last, itemVars, dataVars>>

\* The loop is left (current_id is None, or the lookup missed): reverse, return.
history_return ==
    /\ \/ hist.pc = "break"
       \/ hist.pc = "loop" /\ hist.current_id = None
    /\ hist' = [hist EXCEPT !.pc = "done", !.responses = Reverse(@)]
    /\ UNCHANGED <<responses, last, itemVars, dataVars>>

\* The caller takes what the call returned, the Vec or the error.
history_taken ==
    /\ hist.pc \in {"done", "failed"}
    /\ hist' = HistIdle
    /\ UNCHANGED <<responses, last, itemVars, dataVars>>

\* --------------------------------------------- Responses <-> chat completion
\* Option<T> is a sequence of at most one T, as for get_response.
Some(x) == <<x>>

\* 64-bit and 32-bit integers are words of 16-bit limbs, most significant first:
\* four limbs for i64 and u64, two for i32.
LimbBase == 65536
SignLimb == LimbBase \div 2

\* `t as i32` on an i64: the low 32 bits.
as_i32(t) == <<t[3], t[4]>>

\* `n as i64` on a u64: the same 64 bits.
as_i64(n) == <<n[1], n[2], n[3], n[4]>>

\* endpoints::chat::ChatCompletionRequestMessage::System / ::User.
SystemMessage(text) == [role |-> "system", content |-> text]
UserMessage(text) == [role |-> "user", content |-> text]

\* InputContent::Text / ::Image / ::File.
TextContent(text) == [kind |-> "Text", text |-> text]
ImageContent == [kind |-> "Image", text |-> ""]
FileContent == [kind |-> "File", text |-> ""]

\* InputTypes::Text / ::Array.
InputText(text) == [kind |-> "Text", text |-> text, items |-> <<>>]
InputArray(items) == [kind |-> "Array", text |-> "", items |-> items]

\* Faulty variant: the role of a text item is kept, an Assistant item becomes
\* an assistant message.
item_messages_role_kept(item) ==
    IF item.content.kind = "Text"
    THEN <<[role |-> IF item.role = <<>> THEN "user" ELSE item.role[1],
            content |-> item.content.text]>>
    ELSE <<>>

\* `match &item.content` for one item of the array: the messages it pushes.
item_messages(item) ==
    IF item.content.kind = "Text"
    THEN LET role == IF item.role = <<>> THEN "user" ELSE item.role[1] IN
         CASE role = "user" -> <<UserMessage(item.content.text)>>
           [] role = "system" -> <<SystemMessage(item.content.text)>>
           [] OTHER -> <<UserMessage(item.content.text)>>
    ELSE <<>>

\* `for item in items`, from item i on.
RECURSIVE array_messages(_, _)
array_messages(items, i) ==
    IF i > Len(items) THEN <<>>
    ELSE item_messages(items[i]) \o array_messages(items, i + 1)

\* `if let Some(input) = &self.input`.
input_messages(input) ==
    IF input = <<>> THEN <<>>
    ELSE IF input[1].kind = "Text" THEN <<UserMessage(input[1].text)>>
    ELSE array_messages(input[1].items, 1)

\* The `messages` Vec: history, instructions, input.
messages(request, conversation_history) ==
    conversation_history
    \o (IF request.instructions = <<>> THEN <<>>
        ELSE <<SystemMessage(request.instructions[1])>>)
    \o input_messages(request.input)

\* filter_map over the tools: function tools are kept, the others skipped;
\* parameters that are not a JSON object are dropped (as_object).
RECURSIVE convert_tools(_, _)
convert_tools(response_tools, i) ==
    IF i > Len(response_tools) THEN <<>>
    ELSE (IF response_tools[i].tool_data = "Function"
          THEN <<[type |-> "function",
                  name |-> response_tools[i].name,
                  parameters |-> IF response_tools[i].parameters = Some("object")
                                 THEN Some("object") ELSE <<>>]>>
          ELSE <<>>)
         \o convert_tools(response_tools, i + 1)

\* `match choice`: Function falls back to Auto.
convert_tool_choice(choice) ==
    CASE choice = "Auto" -> "Auto"
      [] choice = "None" -> "None"
      [] choice = "Required" -> "Required"
      [] OTHER -> "Auto"

\* ResponseRequest::to_chat_completion_request.
to_chat_completion_request(request, conversation_history) ==
    [model |-> Some(request.model),
     messages |-> messages(request, conversation_history),
     temperature |-> request.temperature,
     top_p |-> request.top_p,
     max_completion_tokens |->
         IF request.max_output_tokens = <<>> THEN <<>>
         ELSE Some(as_i32(request.max_output_tokens[1])),
     stream |-> request.stream,
     tools |-> IF request.tools = <<>> THEN <<>>
               ELSE Some(convert_tools(request.tools[1], 1)),
     tool_choice |-> IF request.tool_choice = <<>> THEN <<>>
                     ELSE Some(convert_tool_choice(request.tool_choice[1])),
     user |-> request.user]

\* The content Vec of one choice: one output_text block, unwrap_or_default text.
choice_content(choice) ==
    <<[content_type |-> "output_text",
       text |-> IF choice.message.content = <<>> THEN "" ELSE choice.message.content[1],
       annotations |-> <<>>]>>

\* The closure of `choices.into_iter().map`: one OutputItem, its id fresh from
\* generate_message_id.
output_item(choice, id) ==
    [id |-> id,
     item_type |-> "message",
     status |-> "completed",
     role |-> Some("assistant"),
     content |-> Some(choice_content(choice))]

\* impl From<ChatCompletionObject> for ResponseObject; ids are the message ids
\* the uuid generator hands out, one per choice.
from(completion, ids) ==
    [id |-> completion.id,
     object |-> "response",
     created_at |-> as_i64(completion.created),
     model |-> completion.model,
     status |-> "completed",
     previous_response_id |-> <<>>,
     instructions |-> <<>>,
     max_output_tokens |-> <<>>,
     temperature |-> <<>>,
     top_p |-> <<>>,
     store |-> Some(TRUE),
     metadata |-> <<>>,
     user |-> <<>>,
     safety_identifier |-> <<>>,
     prompt_cache_key |-> <<>>,
     tools |-> <<>>,
     tool_choice |-> <<>>,
     parallel_tool_calls |-> <<>>,
     output |-> [i \in 1..Len(completion.choices) |->
                    output_item(completion.choices[i], ids[i])],
     error |-> <<>>,
     incomplete_details |-> <<>>,
     usage |-> Some([input_tokens |-> as_i64(completion.usage.prompt_tokens),
                     output_tokens |-> as_i64(completion.usage.completion_tokens),
                     total_tokens |-> as_i64(completion.usage.total_tokens),
                     input_tokens_details |-> <<>>,
                     output_tokens_details |-> <<>>]),
     reasoning |-> <<>>,
     truncation |-> <<>>,
     verbosity |-> <<>>]

\* ------------------------------------------------ the translators' callers
\* Longest history, input array and choice list the callers pass.
MaxHistory == 1
MaxItems == 2
MaxChoices == 2

\* Sequences over S of length at most n.
SeqsUpTo(S, n) == UNION {[1..k -> S] : k \in 0..n}

Roles == {"user", "assistant", "system"}
Histories ==
    SeqsUpTo({[role |-> r, content |-> "earlier"] : r \in Roles}, MaxHistory)

InputItems ==
    [role : {<<>>} \cup {Some(r) : r \in Roles},
     content : {TextContent("a"), TextContent("b"), ImageContent, FileContent}]

Inputs ==
    {<<>>, Some(InputText("hello")), Some(InputText(""))}
    \cup {Some(InputArray(items)) : items \in SeqsUpTo(InputItems, MaxItems)}

\* i64 values of max_output_tokens: every limb at its edges.
LimbInputs == {0, 1, SignLimb - 1, SignLimb, LimbBase - 1}
I64Inputs == LimbInputs \X LimbInputs \X LimbInputs \X LimbInputs

ToolInputs ==
    {<<>>, Some(<<>>),
     Some(<<[tool_data |-> "Function", name |-> "f", parameters |-> Some("object")],
            [tool_data |-> "WebSearch", name |-> "", parameters |-> <<>>],
            [tool_data |-> "Function", name |-> "g", parameters |-> Some("array")]>>)}
ToolChoiceInputs == {<<>>, Some("Auto"), Some("None"), Some("Required"), Some("Function")}

\* A request with every optional field absent.
PlainRequest ==
    [model |-> "m", input |-> Some(InputText("hello")), instructions |-> <<>>,
     max_output_tokens |-> <<>>, temperature |-> <<>>, top_p |-> <<>>,
     stream |-> <<>>, tools |-> <<>>, tool_choice |-> <<>>, user |-> <<>>]

\* The requests translated: the message-bearing fields varied together, the
\* token limit varied over its words, the tool fields and scalars varied.
Requests ==
    {[PlainRequest EXCEPT !.input = input, !.instructions = instructions] :
        input \in Inputs, instructions \in {<<>>, Some("be brief")}}
    \cup {[PlainRequest EXCEPT !.max_output_tokens = Some(t)] : t \in I64Inputs}
    \cup {[PlainRequest EXCEPT !.tools = tools, !.tool_choice = choice,
                               !.stream = stream, !.user = user] :
             tools \in ToolInputs, choice \in ToolChoiceInputs,
             stream \in {<<>>, Some(TRUE)}, user \in {<<>>, Some("u")}}

\* Token counts and timestamps of a completion: u64 values, small ones and the
\* ones on either side of 2^63, where the sign bit of an i64 starts.
U64Inputs ==
    {<<0, 0, 0, 0>>, <<0, 0, 0, 7>>, <<0, 0, 1, 0>>,
     <<SignLimb - 1, LimbBase - 1, LimbBase - 1, LimbBase - 1>>,
     <<SignLimb, 0, 0, 0>>}

Choices == [message : [content : {<<>>, Some("x"), Some("y")}]]
Completions ==
    [id : {"chatcmpl"}, created : {<<0, 0, 1, 0>>}, model : {"m"},
     choices : SeqsUpTo(Choices, MaxChoices),
     usage : [prompt_tokens : U64Inputs, completion_tokens : U64Inputs,
              total_tokens : U64Inputs]]
MessageIds == {"msg_1", "msg_2"}

CallIdle == [fn |-> "none"]

InitChat ==
    /\ call = CallIdle
    /\ ret = <<>>

\* A caller translates a request.
ToChatCompletionRequest ==
    /\ call.fn = "none"
    /\ \E request \in Requests, conversation_history \in Histories :
         /\ call' = [fn |-> "to_chat_completion_request", request |-> request,
                     conversation_history |-> conversation_history]
         /\ ret' = to_chat_completion_request(request, conversation_history)
    /\ UNCHANGED <<storeVars, metaVars, jsonVars>>

\* A caller converts a completion.
From ==
    /\ call.fn = "none"
    /\ \E completion \in Completions :
         \E ids \in [1..Len(completion.choices) -> MessageIds] :
            /\ call' = [fn |-> "from", completion |-> completion]
            /\ ret' = from(completion, ids)
    /\ UNCHANGED <<storeVars, metaVars, jsonVars>>

\* The caller takes the result.
Returned ==
    /\ call.fn # "none"
    /\ call' = CallIdle
    /\ ret' = <<>>
    /\ UNCHANGED <<storeVars, metaVars, jsonVars>>

FromMap == \E map \in MapInputs : from_map(map)
Insert == \E key \in KeyInputs, value \in ValueInputs : insert(key, value)
Remove == \E key \in KeyInputs : remove(key)

\* ------------------------------------------------------ specification
InitStore ==
    /\ responses = <<>>
    /\ last = "none"
    /\ hist = HistIdle
    /\ input_items = <<>>
    /\ output_items = <<>>

\* The responses put without metadata.
Bare ==
    [id : Ids, status : Statuses, previous_response_id : Ids \cup {None}, metadata : {<<>>}]

Put == \E r \in Bare : store_response(r, <<>>)
Delete == \E id \in Ids : delete_response(id)
UpdateStatus == \E id \in Ids, s \in Statuses : update_response_status(id, s)
HistoryCall == \E id \in Ids : history_call(id)

Init == InitStore /\ InitMeta /\ InitJson /\ InitChat

\* One caller of the store: a walk runs to its end before the next statement.
Next ==
    \/ hist.pc = "idle" /\ Put
    \/ hist.pc = "idle" /\ Delete
    \/ hist.pc = "idle" /\ UpdateStatus
    \/ HistoryCall
    \/ history_lookup
    \/ history_return
    \/ history_taken

Spec == Init /\ [][Next]_vars

\* The store with its item tables; the responses written are those of a few
\* owners, every id is deleted, updated and named by items.
NumOwners == 2
OwnerIds == 1..NumOwners

Owned == {r \in ResponseSession : r.id \in OwnerIds}

\* The responses whose metadata, if any, is within the bounds, and only the
\* first owner's carry any.
Validated ==
    {r \in ResponseSession :
       r.metadata = <<>> \/ (r.id = 1 /\ validate(r.metadata[1]) = {Ok})}

PutOwned == \E r \in Owned \cap Bare : store_response(r, <<>>)
PutValidated ==
    \E r \in Owned \cap Validated :
      \E order \in IterationOrders(MetadataKeys(r)) : store_response(r, order)
PutAnnotated ==
    \E r \in Owned : \E order \in IterationOrders(MetadataKeys(r)) : store_response(r, order)

\* An input item is stamped when the request comes in, an output item when the
\* answer is there.
PutInputItem == \E item \in {x \in Item : x.created_at = 1} : store_input_item(item)
PutOutputItem == \E item \in {x \in Item : x.created_at = 2} : store_output_item(item)

NextItems ==
    \/ PutValidated
    \/ Delete
    \/ UpdateStatus
    \/ PutInputItem
    \/ PutOutputItem

SpecItems == Init /\ [][NextItems]_vars

\* Several callers of the store: each statement and each single lookup of a walk
\* is atomic, and the other callers' statements fall between the lookups.
NextConc ==
    \/ PutOwned
    \/ Delete
    \/ UpdateStatus
    \/ HistoryCall
    \/ history_lookup
    \/ history_return
    \/ history_taken

SpecConc == Init /\ [][NextConc]_vars

\* A walk with deletes falling between its lookups; the other statements run
\* between walks.
NextDeleting ==
    \/ hist.pc = "idle" /\ PutOwned
    \/ Delete
    \/ hist.pc = "idle" /\ UpdateStatus
    \/ HistoryCall
    \/ history_lookup
    \/ history_return
    \/ history_taken

SpecDeleting == Init /\ [][NextDeleting]_vars

\* One caller of the store whose responses carry metadata: a walk runs to its
\* end, or to its error, before the next statement.
NextAnnotated ==
    \/ hist.pc = "idle" /\ PutAnnotated
    \/ hist.pc = "idle" /\ Delete
    \/ HistoryCall
    \/ history_lookup
    \/ history_return
    \/ history_taken

SpecAnnotated == Init /\ [][NextAnnotated]_vars

\* The two translators and their callers.
NextChat ==
    \/ ToChatCompletionRequest
    \/ From
    \/ Returned

SpecChat == Init /\ [][NextChat]_vars

\* One Metadata value and its callers.
NextMeta ==
    \/ FromMap /\ UNCHANGED jsonVars
    \/ Insert /\ UNCHANGED jsonVars
    \/ Remove /\ UNCHANGED jsonVars

SpecMeta == Init /\ [][NextMeta]_vars

\* A Metadata persisted and reloaded.
NextJson ==
    \/ JsonFromMap
    \/ \E order \in IterationOrders(DOMAIN metadata) : JsonToJson(order)
    \/ JsonFromJson
    \/ JsonNext

SpecJson == Init /\ [][NextJson]_vars

\* A metadata column written out of band, read by from_json and by get_response.
NextStored ==
    \/ \E map \in MapInputs : \E order \in WrittenOrders(DOMAIN map) :
         \E pad \in {<<>>, <<"\n">>} : WrittenOutOfBand(map, pad \o to_json(map, order) \o pad)
    \/ \E form \in EscapedForms : WrittenOutOfBand(form.map, form.text)
    \/ JsonFromJson
    \/ GetResponseMetadata
    \/ JsonNext

SpecStored == Init /\ [][NextStored]_vars

\* ------------------------------------------------- store and walk: claims
\* The parent link of a stored id (None for a root or an id that is not stored).
ParentOf(i) == IF i \in DOMAIN responses THEN responses[i].previous_response_id ELSE None

\* The ids reached from i by following between 1 and n parent links.
RECURSIVE AncestorsWithin(_, _)
AncestorsWithin(i, n) ==
    IF n = 0 \/ ParentOf(i) = None THEN {}
    ELSE {ParentOf(i)} \cup AncestorsWithin(ParentOf(i), n - 1)

\* Sequences of ids of length 1..NumIds: the candidate chains.
Chains == UNION {[1..n -> Ids] : n \in 1..NumIds}

\* c is a stored chain R1 <- R2 <- ... <- Rn: c[1] is a root and each later id
\* is stored with the one before it as its parent.
StoredChain(c) ==
    /\ \A i \in 1..Len(c) : c[i] \in DOMAIN responses
    /\ responses[c[1]].previous_response_id = None
    /\ \A i \in 2..Len(c) : responses[c[i]].previous_response_id = c[i - 1]

\* The Response that was put as row i: the row with its metadata column read
\* as the map it was written from.
StoredResponse(i) ==
    [responses[i] EXCEPT !.metadata = IF @ = <<>> THEN <<>> ELSE from_json(@[1])]

\* C1: for a stored chain R1 <- ... <- Rn with R1 a root, the call for Rn returns
\* (it does not fail) and what it returns is exactly [R1, ..., Rn]: oldest first,
\* the requested Response last, each element's parent link naming the element
\* before it.
C1_HistoryIsChainOldestFirst ==
    hist.pc \in {"done", "failed"} =>
      \A c \in Chains :
        (StoredChain(c) /\ c[Len(c)] = hist.target) =>
          /\ hist.pc = "done"
          /\ hist.responses = [i \in 1..Len(c) |-> StoredResponse(c[i])]
          /\ hist.responses[Len(hist.responses)].id = hist.target
          /\ \A i \in 2..Len(hist.responses) :
               hist.responses[i].previous_response_id = hist.responses[i - 1].id

\* C2: in every reachable store state a walk never fetches the same Response
\* twice and makes at most one lookup per stored Response plus one (so it ends).
C2_WalkFetchesEachResponseOnce ==
    /\ \A i, j \in 1..Len(hist.responses) :
         i # j => hist.responses[i].id # hist.responses[j].id
    /\ hist.lookups <= Cardinality(DOMAIN responses) + 1

\* C3: the parent links of the stored Responses contain no cycle: no stored
\* Response reaches itself by following one or more parent links.
C3_NoCycle ==
    \A i \in DOMAIN responses : i \notin AncestorsWithin(i, NumIds)

\* C4: every stored Response whose previous_response_id is present references a
\* Response that is stored.
C4_NoDanglingParent ==
    \A i \in DOMAIN responses :
      responses[i].previous_response_id # None =>
        responses[i].previous_response_id \in DOMAIN responses

\* A delete of a Response that a stored child references has just been refused.
C4_Witness ==
    /\ last = "ForeignKeyError"
    /\ \E i \in DOMAIN responses : responses[i].previous_response_id \notin {None, i}

\* C9: a put of an id that is already stored fails with Conflict and changes no
\* record; a put that succeeds wrote an id that was not stored, and the stored
\* record is the one it wrote.  The puts are those of the callers of Spec; no
\* step of a walk is a put.
C9_PutOfStoredIdConflicts ==
    [][hist' = hist =>
       \A r \in Bare :
         store_response(r, <<>>) =>
           /\ r.id \in DOMAIN responses => (last' = "Conflict" /\ responses' = responses)
           /\ last' = "Ok" =>
                /\ r.id \notin DOMAIN responses
                /\ responses'[r.id] = Row(r, <<>>)
                /\ \A i \in DOMAIN responses : responses'[i] = responses[i]]_vars

\* A put of a stored id has just been refused, the record unchanged.
C9_Witness ==
    /\ last = "Conflict"
    /\ responses # <<>>

\* C10: a put whose previous_response_id is present but names no Response stored
\* before the call (its own id included) fails and stores nothing.
C10_PutOfUnresolvedParentFails ==
    [][\A r \in ResponseSession : \A order \in IterationOrders(MetadataKeys(r)) :
         (/\ store_response(r, order)
          /\ r.previous_response_id # None
          /\ r.previous_response_id \notin DOMAIN responses) =>
           (last' \in {"InvalidReference", "Conflict"} /\ responses' = responses)]_vars

\* ------------------------------------------------------ Metadata: claims
\* C5: after any sequence of from_map, insert and remove calls, successful or
\* failed, the Metadata holds at most 16 entries, every key of length <= 64 and
\* every value of length <= 512.
C5_MetadataWithinBounds ==
    /\ Cardinality(DOMAIN metadata) <= MaxKeys
    /\ \A k \in DOMAIN metadata :
         StrLen(k) <= MaxKeyLen /\ StrLen(metadata[k]) <= MaxValueLen

\* A full Metadata holding a key and a value at their bounds has just refused a
\* mutation.
C5_Witness ==
    /\ Cardinality(DOMAIN metadata) = MaxKeys
    /\ \E k \in DOMAIN metadata : StrLen(k) = MaxKeyLen /\ StrLen(metadata[k]) = MaxValueLen
    /\ mres.op = "insert"
    /\ mres.kind \in {"TooManyKeys", "KeyTooLong", "ValueTooLong"}

ViolatedBounds(m) ==
    (IF Cardinality(DOMAIN m) > MaxKeys THEN {"TooManyKeys"} ELSE {})
      \cup (IF \E k \in DOMAIN m : StrLen(k) > MaxKeyLen THEN {"KeyTooLong"} ELSE {})
      \cup (IF \E k \in DOMAIN m : StrLen(m[k]) > MaxValueLen THEN {"ValueTooLong"} ELSE {})

OutOfBounds(m) ==
    \/ Cardinality(DOMAIN m) > MaxKeys
    \/ \E k \in DOMAIN m : Len(k) > MaxKeyLen \/ Len(m[k]) > MaxValueLen

\* C8: for every map of at most MaxKeys entries, with keys of at most MaxKeyLen
\* characters and values of at most MaxValueLen characters, from_map succeeds
\* with that map, and from_json of its to_json, whatever the order the entries
\* were written in, yields a Metadata equal to it.
C8_WithinBoundsRoundTrip ==
    /\ jpc = "refused" => OutOfBounds(jmap)
    /\ jpc \in {"made", "written", "read"} => metadata = jmap
    /\ jpc = "read" => loaded = <<jmap>>

\* ------------------------------------------------ delete and update: claims
\* Some other stored response names id as its parent.
ReferencedByOther(id) ==
    \E j \in DOMAIN responses : j # id /\ responses[j].previous_response_id = id

\* The state after the step is the state before it.
StoreUnchanged ==
    /\ responses' = responses
    /\ input_items' = input_items
    /\ output_items' = output_items

\* After the step id is gone with every item it owned.
GoneWithItems(id) ==
    /\ get_response(responses', id) = {GetOk(<<>>)}
    /\ get_items(input_items', id) = {<<>>}
    /\ get_items(output_items', id) = {<<>>}

\* C11: delete(id) of a stored response returns true and leaves no row
\* and no item of id; delete of an id that is not stored returns false and
\* changes nothing.
C11_DeleteRemovesAndReports ==
    [][\A id \in Ids : delete_response(id) =>
          IF id \in DOMAIN responses
          THEN last' = "true" /\ GoneWithItems(id)
          ELSE last' = "false" /\ StoreUnchanged]_vars

\* What delete(id) of a referenced response would leave if it went through:
\* every other row and every item of another owner as it was.
OnlyOwnRemoved(id) ==
    /\ responses' = Deleted(responses, id)
    /\ \A i \in DOMAIN responses \ {id} : responses'[i] = responses[i]
    /\ get_response(responses', id) = {GetOk(<<>>)}
    /\ \A o \in Ids \ {id} :
         /\ get_items(input_items', o) = get_items(input_items, o)
         /\ get_items(output_items', o) = get_items(output_items, o)

\* C12: delete(id) of a stored response that other stored responses
\* name as parent succeeds and removes only that response and its own items.
C12_DeleteOfParentSucceeds ==
    [][\A id \in Ids : delete_response(id) /\ ReferencedByOther(id) =>
          last' = "true" /\ OnlyOwnRemoved(id)]_vars

\* C17: updateStatus(id, status) on a stored response changes only that row's
\* status; its id, previous_response_id and metadata, every other row and all
\* items are unchanged; on an id that is not stored nothing changes.
C17_UpdateStatusChangesOnlyStatus ==
    [][\A id \in Ids, status \in Statuses : update_response_status(id, status) =>
          /\ DOMAIN responses' = DOMAIN responses
          /\ \A i \in DOMAIN responses :
               /\ responses'[i].id = responses[i].id
               /\ responses'[i].previous_response_id = responses[i].previous_response_id
               /\ responses'[i].metadata = responses[i].metadata
               /\ responses'[i].status = IF i = id THEN status ELSE responses[i].status
          /\ id \notin DOMAIN responses => responses' = responses
          /\ input_items' = input_items
          /\ output_items' = output_items]_vars

\* An update succeeded on a store holding a completed child with metadata and
\* items of both kinds.
C17_Witness ==
    /\ last = "Ok"
    /\ \E i \in DOMAIN responses :
         /\ responses[i].status = "completed"
         /\ responses[i].metadata # <<>>
         /\ responses[i].previous_response_id \notin {None, i}
    /\ input_items # <<>>
    /\ output_items # <<>>

\* ------------------------------------------------------ translation: claims
IsTextItem(item) == item.content.kind = "Text"

\* The text items of a structured input, in input order.
TextItems(input) == SelectSeq(input.items, IsTextItem)

\* C13: the message list is the history unchanged, then one system message with
\* the request's instructions if present, then the input's messages in input
\* order: one user message for a plain text; for a structured input one message
\* per text item, system if the item's role is System and user otherwise, and
\* none for an image or file item.
C13_MessagesAreHistoryInstructionsInput ==
    call.fn = "to_chat_completion_request" =>
        LET request == call.request
            history == call.conversation_history
            k == IF request.instructions = <<>> THEN 0 ELSE 1
            first == Len(history) + k
            rest == SubSeq(ret.messages, first + 1, Len(ret.messages))
        IN  /\ Len(ret.messages) >= first
            /\ SubSeq(ret.messages, 1, Len(history)) = history
            /\ k = 1 => /\ ret.messages[first].role = "system"
                        /\ ret.messages[first].content = request.instructions[1]
            /\ request.input = <<>> => rest = <<>>
            /\ request.input # <<>> /\ request.input[1].kind = "Text" =>
                  /\ Len(rest) = 1
                  /\ rest[1].role = "user"
                  /\ rest[1].content = request.input[1].text
            /\ request.input # <<>> /\ request.input[1].kind = "Array" =>
                  LET texts == TextItems(request.input[1]) IN
                  /\ Len(rest) = Len(texts)
                  /\ \A j \in 1..Len(texts) :
                       /\ rest[j].content = texts[j].content.text
                       /\ rest[j].role = IF texts[j].role = Some("system")
                                         THEN "system" ELSE "user"

\* A request with history, instructions, and a structured input holding an
\* image or file item next to an Assistant text item was translated.
C13_Witness ==
    /\ call.fn = "to_chat_completion_request"
    /\ call.conversation_history # <<>>
    /\ call.request.instructions # <<>>
    /\ call.request.input # <<>>
    /\ call.request.input[1].kind = "Array"
    /\ \E i, j \in 1..Len(call.request.input[1].items) :
         /\ ~IsTextItem(call.request.input[1].items[i])
         /\ IsTextItem(call.request.input[1].items[j])
         /\ call.request.input[1].items[j].role = Some("assistant")
    /\ Len(ret.messages) = 3

\* A u64 word and an i64 word denote the same integer: the same bits, sign clear.
SameCount(u, i) == i = u /\ u[1] < SignLimb

\* C14: a completion with n choices becomes a result with n output items in
\* choice order, each a completed assistant message with exactly one text block
\* holding the choice's text (the empty text when the choice has none) and no
\* annotations; the usage counts are the source's; store is true; error,
\* incomplete_details, reasoning and truncation are absent.
C14_ResultFromCompletion ==
    call.fn = "from" =>
        LET completion == call.completion IN
        /\ Len(ret.output) = Len(completion.choices)
        /\ \A i \in 1..Len(completion.choices) :
             LET item == ret.output[i]
                 text == completion.choices[i].message.content
             IN  /\ item.item_type = "message"
                 /\ item.role = Some("assistant")
                 /\ item.status = "completed"
                 /\ item.content # <<>>
                 /\ Len(item.content[1]) = 1
                 /\ item.content[1][1].text = IF text = <<>> THEN "" ELSE text[1]
                 /\ item.content[1][1].annotations = <<>>
        /\ ret.usage # <<>>
        /\ SameCount(completion.usage.prompt_tokens, ret.usage[1].input_tokens)
        /\ SameCount(completion.usage.completion_tokens, ret.usage[1].output_tokens)
        /\ SameCount(completion.usage.total_tokens, ret.usage[1].total_tokens)
        /\ ret.store = Some(TRUE)
        /\ ret.error = <<>>
        /\ ret.incomplete_details = <<>>
        /\ ret.reasoning = <<>>
        /\ ret.truncation = <<>>

\* The i64 of the same integer value as an i32: the sign bit extended.
i32_to_i64(w) ==
    IF w[1] >= SignLimb THEN <<LimbBase - 1, LimbBase - 1, w[1], w[2]>>
    ELSE <<0, 0, w[1], w[2]>>

\* C15: when max_output_tokens is present, whatever its i64 value,
\* max_completion_tokens is present with that same integer value; when it is
\* absent, max_completion_tokens is absent.
C15_MaxTokensPassThrough ==
    call.fn = "to_chat_completion_request" =>
        IF call.request.max_output_tokens = <<>>
        THEN ret.max_completion_tokens = <<>>
        ELSE /\ ret.max_completion_tokens # <<>>
             /\ i32_to_i64(ret.max_completion_tokens[1]) = call.request.max_output_tokens[1]

\* ------------------------------------------- the walk under other callers
\* C16: a lookup that finds no row ends the loop without an error, and the walk
\* returns the responses visited so far, oldest first: nothing for an id with no
\* stored row; for a chain whose parent link names no row, the responses from
\* the child of the missing parent down to the requested one.
C16_MissReturnsVisitedOldestFirst ==
    [][/\ history_lookup /\ get_response(responses, hist.current_id) = {GetOk(<<>>)} =>
            /\ hist'.pc = "break"
            /\ hist'.responses = hist.responses
            /\ hist.lookups = 0 => hist'.responses = <<>>
       /\ hist.pc = "break" /\ hist'.pc = "done" =>
            LET visited == hist.responses
                n == Len(visited)
            IN  /\ Len(hist'.responses) = n
                /\ \A i \in 1..n : hist'.responses[i] = visited[n + 1 - i]
                /\ n > 0 =>
                     /\ hist'.responses[n].id = hist.target
                     /\ hist'.responses[1].previous_response_id = hist.current_id]_vars

\* A walk returned a non-empty result whose oldest element still names a
\* parent: the lookup of that parent found no row.
C16_Witness ==
    /\ hist.pc = "done"
    /\ hist.responses # <<>>
    /\ hist.responses[1].previous_response_id # None
    /\ hist.responses[1].previous_response_id \notin DOMAIN responses

\* The walk, left to itself at id with the table as it is, reaches its return
\* within n more lookups that find a row: a lookup that fails or finds no row
\* ends it.
RECURSIVE WalkEndsAlone(_, _)
WalkEndsAlone(id, n) ==
    IF id = None THEN TRUE
    ELSE \A result \in get_response(responses, id) :
           \/ result.kind = "Err"
           \/ result.response = <<>>
           \/ n > 0 /\ WalkEndsAlone(result.response[1].previous_response_id, n - 1)

\* A returned result is link-consistent: its last element has the requested id
\* and every earlier element is the parent the next one names.
LinkConsistent ==
    hist.pc = "done" /\ hist.responses # <<>> =>
        /\ hist.responses[Len(hist.responses)].id = hist.target
        /\ \A i \in 1..(Len(hist.responses) - 1) :
             hist.responses[i].id = hist.responses[i + 1].previous_response_id

\* C19: a walk interleaved with other callers' put, delete and updateStatus
\* terminates (in whatever state the others leave it, the walk on its own reaches
\* its return) and any non-empty result is link-consistent.
C19_WalkTerminatesLinkConsistent ==
    /\ hist.pc = "loop" => WalkEndsAlone(hist.current_id, NumIds)
    /\ LinkConsistent

\* ------------------------------------------------- persisted Metadata: claim
\* C18: Metadata read back from its persisted form is not re-validated: whatever
\* bound the persisted map exceeds, from_json returns that Metadata, and
\* get_response of the row holding it returns the Response with that Metadata
\* rather than failing.
C18_PersistedMetadataNotRevalidated ==
    /\ jpc \in {"read", "fetched"} => loaded = <<jmap>>
    /\ jpc = "fetched" => fetched = [kind |-> "Ok", metadata |-> <<jmap>>]
====
